---- MODULE Spec2Model ----
(***************************************************************************)
(* A model of attila_sftp.sftp_connection: the session state machine, the  *)
(* working-directory discipline, the directory-tree operations with their  *)
(* check-only pass, and the proxy-file open/close cycle.                   *)
(***************************************************************************)
EXTENDS Integers, Sequences, FiniteSets, TLC

(***************************************************************************)
(* Bounds of the remote store.                                             *)
(***************************************************************************)
MaxDepth == 3
MaxLen == 1

Names == {"a", "b"}
SubNames == {"a"}
Byte == {0, 1}

Root == <<>>

RECURSIVE PathsOfLen(_)
PathsOfLen(n) ==
  IF n = 0 THEN {Root}
  ELSE IF n = 1 THEN {<<x>> : x \in Names}
  ELSE {Append(p, x) : p \in PathsOfLen(n - 1), x \in SubNames}

Paths == UNION {PathsOfLen(n) : n \in 0..MaxDepth}

RECURSIVE SeqsOfLen(_)
SeqsOfLen(n) ==
  IF n = 0 THEN {<<>>}
  ELSE {Append(s, b) : s \in SeqsOfLen(n - 1), b \in Byte}

Bytes == UNION {SeqsOfLen(n) : n \in 0..MaxLen}

(***************************************************************************)
(* os.path.split on a normalised absolute path.                            *)
(***************************************************************************)
DirOf(p) == IF p = Root THEN Root ELSE SubSeq(p, 1, Len(p) - 1)
NameOf(p) == IF p = Root THEN "" ELSE p[Len(p)]

RECURSIVE Ancestors(_)
Ancestors(p) == IF p = Root THEN {} ELSE {DirOf(p)} \cup Ancestors(DirOf(p))

(***************************************************************************)
(* The remote store: every path is absent, a directory or a file.          *)
(***************************************************************************)
NoNode == [k |-> "none", d |-> <<>>]
DirNode == [k |-> "dir", d |-> <<>>]
FileNode(b) == [k |-> "file", d |-> b]
Nodes == {NoNode, DirNode} \cup {FileNode(b) : b \in Bytes}

Kind(t, p) == IF p \in Paths THEN t[p].k ELSE "none"
Children(t, p) == {q \in Paths : q # Root /\ DirOf(q) = p /\ t[q].k # "none"}

ValidTree(t) ==
  /\ t[Root].k = "dir"
  /\ \A p \in Paths \ {Root} : t[p].k # "none" => t[DirOf(p)].k = "dir"

InitBytes == <<>>
KindTrees ==
  {t \in [Paths -> {NoNode, DirNode, FileNode(InitBytes)}] : ValidTree(t)}

OK == "none"
None == "None"
NoCwd == <<"None">>
Home == Root

(***************************************************************************)
(* Bounds and inputs of the proxy-file cycle: the paths of one chain of    *)
(* directories, and its sibling at the top level.                          *)
(***************************************************************************)
FileDepth == 2
FilePaths ==
  {p \in Paths : p # Root /\ Len(p) <= FileDepth /\ (Len(p) = 1 \/ p[1] = "a")}
Modes == {"r", "rb", "w", "wb", "a", "r+", "w+", "W"}

NoFile == [ex |-> FALSE, d |-> <<>>]
File(b) == [ex |-> TRUE, d |-> b]

VARIABLES tree, alive, _is_open, _session, _cwd, rcwd, pf, temp, lastw,
          last, log, callers

vars == <<tree, alive, _is_open, _session, _cwd, rcwd, pf, temp, lastw,
          last, log, callers>>

(***************************************************************************)
(* The connection as one record, threaded through every call of a handler: *)
(* the remote tree, the client's working directory (rcwd), the cached      *)
(* working directory (cwd), the liveness flag (io), the client handle      *)
(* (sess), whether the transport behind the handle still answers (alive),  *)
(* the local temporary file of the proxy file (temp),                      *)
(* the primitives issued so far (log), the number of liveness probes (np), *)
(* the order in which the server lists names (ord), the names the server   *)
(* lists although nothing answers to them (stale), the working             *)
(* directories to return to (stack), the pending exception                 *)
(* (exc) and the value returned (ret).                                     *)
(***************************************************************************)
Conn ==
  [tree |-> tree, rcwd |-> rcwd, cwd |-> _cwd, io |-> _is_open,
   sess |-> _session, alive |-> alive, temp |-> temp, log |-> <<>>,
   np |-> 0,
   ord |-> <<>>, stale |-> {}, stack |-> <<>>, exc |-> OK, ret |-> None]

Raise(c, e) == [c EXCEPT !.exc = e]
Ret(c, v) == [c EXCEPT !.ret = v]
Emit(c, ev) == [c EXCEPT !.log = Append(@, ev)]

(***************************************************************************)
(* The element of a one-element set.  A handler names the connection after *)
(* each of its calls by binding it, The({... c1 ... : c1 \in {call}}), so  *)
(* that the call is evaluated once however often its result is used.      *)
(***************************************************************************)
The(S) == CHOOSE v \in S : TRUE

(***************************************************************************)
(* The protocol client (paramiko.SFTPClient).  A relative name is resolved *)
(* against the client's working directory; a dead transport fails every    *)
(* call with a connectivity error.                                         *)
(***************************************************************************)
Resolve(c, name) ==
  IF c.rcwd = NoCwd THEN Append(Home, name) ELSE Append(c.rcwd, name)

S_listdir(c) ==
  LET dir == IF c.rcwd = NoCwd THEN Home ELSE c.rcwd IN
  IF ~c.alive THEN Raise(c, "ConnErr")
  ELSE IF Kind(c.tree, dir) # "dir" THEN Raise(c, "IOError")
  ELSE Ret(c, {NameOf(q) : q \in Children(c.tree, dir)} \cup c.stale)

S_getcwd(c) == c.rcwd

S_chdir(c, p) ==
  IF ~c.alive THEN Raise(c, "ConnErr")
  ELSE IF Kind(c.tree, p) # "dir" THEN Raise(c, "IOError")
  ELSE [c EXCEPT !.rcwd = p]

S_stat(c, p) ==
  IF ~c.alive THEN Raise(c, "ConnErr")
  ELSE IF Kind(c.tree, p) = "none" THEN Raise(c, "IOError")
  ELSE Ret(c, Len(c.tree[p].d))

S_mkdir(c, p) ==
  LET c1 == Emit(c, "mkdir") IN
  IF ~c.alive THEN Raise(c1, "ConnErr")
  ELSE IF p \notin Paths \/ p = Root \/ Kind(c.tree, p) # "none"
          \/ Kind(c.tree, DirOf(p)) # "dir"
  THEN Raise(c1, "IOError")
  ELSE [c1 EXCEPT !.tree = [@ EXCEPT ![p] = DirNode]]

S_rmdir(c, name) ==
  LET p == Resolve(c, name)
      c1 == Emit(c, "rmdir") IN
  IF ~c.alive THEN Raise(c1, "ConnErr")
  ELSE IF Kind(c.tree, p) # "dir" \/ Children(c.tree, p) # {}
  THEN Raise(c1, "IOError")
  ELSE [c1 EXCEPT !.tree = [@ EXCEPT ![p] = NoNode]]

S_remove(c, name) ==
  LET p == Resolve(c, name)
      c1 == Emit(c, "remove") IN
  IF ~c.alive THEN Raise(c1, "ConnErr")
  ELSE IF Kind(c.tree, p) # "file" THEN Raise(c1, "IOError")
  ELSE [c1 EXCEPT !.tree = [@ EXCEPT ![p] = NoNode]]

S_get(c, name) ==
  LET p == Resolve(c, name)
      c1 == [Emit(c, "get") EXCEPT !.temp = File(<<>>)] IN
  IF ~c.alive THEN Raise(c1, "ConnErr")
  ELSE IF Kind(c.tree, p) # "file" THEN Raise(c1, "IOError")
  ELSE [c1 EXCEPT !.temp = File(c.tree[p].d)]

S_put(c, name) ==
  LET p == Resolve(c, name)
      c1 == Emit(c, "put") IN
  IF ~c.temp.ex THEN Raise(c1, "IOError")
  ELSE IF ~c.alive THEN Raise(c1, "ConnErr")
  ELSE IF p \notin Paths \/ Kind(c.tree, p) = "dir"
          \/ Kind(c.tree, DirOf(p)) # "dir"
  THEN Raise(c1, "IOError")
  ELSE [c1 EXCEPT !.tree = [@ EXCEPT ![p] = FileNode(c.temp.d)]]

IsPrefix(a, q) == Len(a) <= Len(q) /\ SubSeq(q, 1, Len(a)) = a

Moved(t, a, b) ==
  [q \in Paths |->
     IF IsPrefix(b, q)
     THEN LET s == a \o SubSeq(q, Len(b) + 1, Len(q)) IN
          IF s \in Paths THEN t[s] ELSE NoNode
     ELSE IF IsPrefix(a, q) THEN NoNode
     ELSE t[q]]

S_rename(c, old, new) ==
  LET po == Resolve(c, old)
      pn == Resolve(c, new)
      c1 == Emit(c, "rename") IN
  IF ~c.alive THEN Raise(c1, "ConnErr")
  ELSE IF pn \notin Paths \/ Kind(c.tree, po) = "none"
          \/ Kind(c.tree, pn) # "none"
  THEN Raise(c1, "IOError")
  ELSE [c1 EXCEPT !.tree = Moved(@, po, pn)]

S_close(c) == IF ~c.alive THEN Raise(c, "ConnErr") ELSE c

(***************************************************************************)
(* sftp_connection: session state.                                         *)
(***************************************************************************)
close_keeps_handle(c) ==
  IF ~c.io THEN Raise(c, "AssertionError")
  ELSE [S_close(c) EXCEPT !.io = FALSE]

close_unprotected(c) ==
  IF ~c.io THEN Raise(c, "AssertionError")
  ELSE The({IF c1.exc # OK THEN c1
            ELSE [c1 EXCEPT !.sess = None, !.io = FALSE]
            : c1 \in {S_close(c)}})

close(c) ==
  IF ~c.io THEN Raise(c, "AssertionError")
  ELSE [S_close(c) EXCEPT !.sess = None, !.io = FALSE]

is_open_unguarded(c) ==
  IF c.io
  THEN IF c.sess = None
       THEN Ret([c EXCEPT !.io = FALSE], FALSE)
       ELSE The({IF c1.exc = OK
                 THEN Ret(c1, c1.io)
                 ELSE Ret([close([c1 EXCEPT !.exc = OK]) EXCEPT !.io = FALSE],
                          FALSE)
                 : c1 \in {S_listdir([c EXCEPT !.np = @ + 1])}})
  ELSE Ret(c, c.io)

is_open(c) ==
  IF c.io
  THEN IF c.sess = None
       THEN Ret([c EXCEPT !.io = FALSE], FALSE)
       ELSE The({IF c1.exc = OK
                 THEN Ret(c1, c1.io)
                 ELSE Ret([close([c1 EXCEPT !.exc = OK])
                             EXCEPT !.exc = OK, !.io = FALSE], FALSE)
                 : c1 \in {S_listdir([c EXCEPT !.np = @ + 1])}})
  ELSE Ret(c, c.io)

base_chdir(c, p) == [c EXCEPT !.cwd = p]
base_getcwd(c) == Ret(c, c.cwd)

getcwd(c) ==
  The({IF c1.ret
       THEN LET r == S_getcwd(c1) IN
            base_getcwd(base_chdir(c1, IF r = NoCwd THEN Root ELSE r))
       ELSE base_getcwd(c1)
       : c1 \in {is_open(c)}})

chdir(c, p) ==
  The({IF c1.ret THEN S_chdir(c1, base_getcwd(c1).ret) ELSE c1
       : c1 \in {is_open(base_chdir(c, p))}})

(***************************************************************************)
(* attila.abc.files.Path as a context manager.  Entering remembers the     *)
(* connection's working directory and changes to the path; leaving changes *)
(* back.  An exception of the block survives unless changing back raises   *)
(* too; the value the block returns is the value of the statement.  A      *)
(* block is entered only if Enter did not raise.                           *)
(***************************************************************************)
Enter(c, p) ==
  The({The({IF c1.exc # OK THEN c1
            ELSE [c1 EXCEPT !.stack = <<c0.ret>> \o @]
            : c1 \in {chdir(c0, p)}})
       : c0 \in {getcwd(c)}})

Exit(c) ==
  The({IF c1.exc # OK THEN c1 ELSE [c1 EXCEPT !.exc = c.exc, !.ret = c.ret]
       : c1 \in {chdir([c EXCEPT !.exc = OK, !.stack = Tail(@)],
                       Head(c.stack))}})

(***************************************************************************)
(* sftp_connection: queries.                                               *)
(***************************************************************************)
is_dir_body(x) ==
  The({IF y.exc = OK THEN Ret(y, TRUE) ELSE Ret([y EXCEPT !.exc = OK], FALSE)
       : y \in {S_listdir(x)}})

is_dir_unprotected(c, p) ==
  The({IF ~c1.ret THEN Raise(c1, "AssertionError")
       ELSE The({IF c2.exc # OK THEN c2 ELSE Exit(is_dir_body(c2))
                 : c2 \in {Enter(c1, p)}})
       : c1 \in {is_open(c)}})

is_dir(c, p) ==
  The({IF ~c1.ret THEN Raise(c1, "AssertionError")
       ELSE The({IF c3.exc # OK THEN Ret([c3 EXCEPT !.exc = OK], FALSE)
                 ELSE c3
                 : c3 \in {The({IF c2.exc # OK THEN c2
                                ELSE Exit(is_dir_body(c2))
                                : c2 \in {Enter(c1, p)}})}})
       : c1 \in {is_open(c)}})

size(c, p) ==
  The({IF ~c1.ret THEN Raise(c1, "AssertionError") ELSE S_stat(c1, p)
       : c1 \in {is_open(c)}})

is_file(c, p) ==
  The({IF ~c1.ret THEN Raise(c1, "AssertionError")
       ELSE The({IF c2.exc # OK THEN Ret([c2 EXCEPT !.exc = OK], FALSE)
                 ELSE Ret(c2, TRUE)
                 : c2 \in {size(c1, p)}})
       : c1 \in {is_open(c)}})

exists(c, p) ==
  The({IF c1.exc # OK \/ c1.ret THEN c1 ELSE is_file(c1, p)
       : c1 \in {is_dir(c, p)}})

RECURSIVE Listed(_, _)
Listed(ord, names) ==
  IF ord = <<>> THEN <<>>
  ELSE (IF Head(ord) \in names THEN <<Head(ord)>> ELSE <<>>)
       \o Listed(Tail(ord), names)

InOrder(c, names) == Listed(c.ord, names)

RECURSIVE KeepExisting(_, _, _, _)
KeepExisting(c, p, names, acc) ==
  IF c.exc # OK THEN c
  ELSE IF names = <<>> THEN Ret(c, acc)
  ELSE The({IF c1.exc # OK THEN c1
            ELSE KeepExisting(c1, p, Tail(names),
                              IF c1.ret THEN Append(acc, Head(names))
                              ELSE acc)
            : c1 \in {exists(c, Append(p, Head(names)))}})

GlobMatch(pattern, name) == pattern = "*" \/ pattern = name

RECURSIVE Matching(_, _)
Matching(pattern, names) ==
  IF names = <<>> THEN <<>>
  ELSE (IF GlobMatch(pattern, Head(names)) THEN <<Head(names)>> ELSE <<>>)
       \o Matching(pattern, Tail(names))

list_body_unfiltered(c, p) ==
  The({IF c1.exc # OK THEN c1
       ELSE Ret(c1, InOrder(c1, c1.ret))
       : c1 \in {S_listdir(c)}})

list_body(c, p) ==
  The({IF c1.exc # OK THEN c1
       ELSE KeepExisting(c1, p, InOrder(c1, c1.ret), <<>>)
       : c1 \in {S_listdir(c)}})

list(c, p, pattern) ==
  The({IF ~c1.ret THEN Raise(c1, "AssertionError")
       ELSE The({IF c3.exc # OK THEN c3
                 ELSE IF pattern = "*" THEN c3
                 ELSE Ret(c3, Matching(pattern, c3.ret))
                 : c3 \in {The({IF c2.exc # OK THEN c2
                                ELSE Exit(list_body(c2, p))
                                : c2 \in {Enter(c1, p)}})}})
       : c1 \in {is_open(c)}})

glob(c, p) ==
  The({IF c1.exc # OK THEN c1
       ELSE Ret(c1, [i \in 1..Len(c1.ret) |-> Append(p, c1.ret[i])])
       : c1 \in {list(c, p, "*")}})

(***************************************************************************)
(* sftp_connection.remove                                                  *)
(***************************************************************************)
remove_quiet(c, p) ==
  The({IF ~c1.ret THEN Raise(c1, "AssertionError")
       ELSE The({IF c2.exc # OK THEN c2
                 ELSE The({IF c3.exc # OK THEN c3
                           ELSE IF c2.ret
                           THEN [Exit(S_rmdir(c3, NameOf(p)))
                                   EXCEPT !.exc = OK]
                           ELSE Exit(S_remove(c3, NameOf(p)))
                           : c3 \in {Enter(c2, DirOf(p))}})
                 : c2 \in {is_dir(c1, p)}})
       : c1 \in {is_open(c)}})

remove_no_chdir(c, p) ==
  The({IF ~c1.ret THEN Raise(c1, "AssertionError")
       ELSE The({IF c2.exc # OK THEN c2
                 ELSE IF c2.ret THEN S_rmdir(c2, NameOf(p))
                 ELSE S_remove(c2, NameOf(p))
                 : c2 \in {is_dir(c1, p)}})
       : c1 \in {is_open(c)}})

remove(c, p) ==
  The({IF ~c1.ret THEN Raise(c1, "AssertionError")
       ELSE The({IF c2.exc # OK THEN c2
                 ELSE The({IF c3.exc # OK THEN c3
                           ELSE IF c2.ret THEN Exit(S_rmdir(c3, NameOf(p)))
                           ELSE Exit(S_remove(c3, NameOf(p)))
                           : c3 \in {Enter(c2, DirOf(p))}})
                 : c2 \in {is_dir(c1, p)}})
       : c1 \in {is_open(c)}})

(***************************************************************************)
(* sftp_connection.rename                                                  *)
(***************************************************************************)
rename_always(c, p, new_name) ==
  The({IF ~c1.ret THEN Raise(c1, "AssertionError")
       ELSE The({IF c2.exc # OK THEN c2
                 ELSE Exit(S_rename(c2, NameOf(p), new_name))
                 : c2 \in {Enter(c1, DirOf(p))}})
       : c1 \in {is_open(c)}})

rename(c, p, new_name) ==
  The({IF ~c1.ret THEN Raise(c1, "AssertionError")
       ELSE IF NameOf(p) # new_name
       THEN The({IF c2.exc # OK THEN c2
                 ELSE Exit(S_rename(c2, NameOf(p), new_name))
                 : c2 \in {Enter(c1, DirOf(p))}})
       ELSE c1
       : c1 \in {is_open(c)}})

(***************************************************************************)
(* remove and rename as the steps between which another caller of the same *)
(* session can run: the guard and the choice of the branch, entering the   *)
(* parent directory (Enter), the primitive on the bare name, and leaving   *)
(* the directory (Exit).  The guard returns whether a block is entered     *)
(* for a directory (remove) or at all (rename).                            *)
(***************************************************************************)
remove_guard(c, p) ==
  The({IF ~c1.ret THEN Raise(c1, "AssertionError") ELSE is_dir(c1, p)
       : c1 \in {is_open(c)}})

rename_guard(c, p, new_name) ==
  The({IF ~c1.ret THEN Raise(c1, "AssertionError")
       ELSE Ret(c1, NameOf(p) # new_name)
       : c1 \in {is_open(c)}})

bare_name_primitive_rescoped(c, op, p, isdir, new_name) ==
  The({IF c1.exc # OK THEN c1
       ELSE IF op = "rename" THEN S_rename(c1, NameOf(p), new_name)
       ELSE IF isdir THEN S_rmdir(c1, NameOf(p))
       ELSE S_remove(c1, NameOf(p))
       : c1 \in {S_chdir(c, DirOf(p))}})

bare_name_primitive(c, op, p, isdir, new_name) ==
  IF op = "rename" THEN S_rename(c, NameOf(p), new_name)
  ELSE IF isdir THEN S_rmdir(c, NameOf(p))
  ELSE S_remove(c, NameOf(p))

(***************************************************************************)
(* sftp_connection.make_dir.  check_only is "None", "True" or "False".     *)
(* "check_ok" and "check_raise" mark in the log how the check-only pass of *)
(* the outermost call ended.                                               *)
(***************************************************************************)
RECURSIVE RemoveAll(_, _)
RemoveAll(c, children) ==
  IF c.exc # OK \/ children = <<>> THEN c
  ELSE RemoveAll(remove(c, Head(children)), Tail(children))

RECURSIVE make_dir(_, _, _, _, _, _)
RECURSIVE make_dir_body(_, _, _, _, _, _)

make_dir_clear_always(c, p, overwrite, check_only) ==
  The({IF c1.exc # OK THEN c1
       ELSE IF c1.ret # <<>>
       THEN IF ~check_only THEN RemoveAll(c1, c1.ret) ELSE c1
       ELSE c1
       : c1 \in {glob(c, p)}})

make_dir_clear(c, p, overwrite, check_only) ==
  The({IF c1.exc # OK THEN c1
       ELSE IF c1.ret # <<>>
       THEN IF ~overwrite THEN Raise(c1, "DirectoryNotEmptyError")
            ELSE IF ~check_only THEN RemoveAll(c1, c1.ret)
            ELSE c1
       ELSE c1
       : c1 \in {glob(c, p)}})

make_dir_replace_forced(c, p, overwrite, check_only) ==
  IF ~check_only
  THEN The({IF c1.exc # OK THEN c1 ELSE S_mkdir(c1, p)
            : c1 \in {remove(c, p)}})
  ELSE c

make_dir_replace(c, p, overwrite, check_only) ==
  IF ~overwrite THEN Raise(c, "FileExistsError")
  ELSE IF ~check_only
  THEN The({IF c1.exc # OK THEN c1 ELSE S_mkdir(c1, p)
            : c1 \in {remove(c, p)}})
  ELSE c

make_dir_create_overwriting(c, p, overwrite, fill, check_only) ==
  The({IF c1.exc # OK THEN c1
       ELSE The({IF c2.exc # OK THEN c2
                 ELSE IF ~check_only THEN S_mkdir(c2, p)
                 ELSE c2
                 : c2 \in {IF ~c1.ret
                           THEN IF ~fill THEN Raise(c1, "NotADirectoryError")
                                ELSE make_dir(c1, DirOf(p), TRUE, FALSE,
                                              TRUE,
                                              IF check_only THEN "True"
                                              ELSE "False")
                           ELSE c1}})
       : c1 \in {is_dir(c, DirOf(p))}})

make_dir_create_unchecked(c, p, overwrite, fill, check_only) ==
  The({IF c1.exc # OK THEN c1
       ELSE The({IF c2.exc # OK THEN c2
                 ELSE IF ~check_only THEN S_mkdir(c2, p)
                 ELSE c2
                 : c2 \in {IF ~c1.ret
                           THEN IF ~fill THEN Raise(c1, "NotADirectoryError")
                                ELSE make_dir(c1, DirOf(p), overwrite, FALSE,
                                              TRUE, "False")
                           ELSE c1}})
       : c1 \in {is_dir(c, DirOf(p))}})

make_dir_create(c, p, overwrite, fill, check_only) ==
  The({IF c1.exc # OK THEN c1
       ELSE The({IF c2.exc # OK THEN c2
                 ELSE IF ~check_only THEN S_mkdir(c2, p)
                 ELSE c2
                 : c2 \in {IF ~c1.ret
                           THEN IF ~fill THEN Raise(c1, "NotADirectoryError")
                                ELSE make_dir(c1, DirOf(p), overwrite, FALSE,
                                              TRUE,
                                              IF check_only THEN "True"
                                              ELSE "False")
                           ELSE c1}})
       : c1 \in {is_dir(c, DirOf(p))}})

make_dir_body(c, p, overwrite, clear, fill, check_only) ==
  The({IF c1.exc # OK THEN c1
       ELSE IF c1.ret
       THEN IF clear THEN make_dir_clear(c1, p, overwrite, check_only)
            ELSE c1
       ELSE The({IF c2.exc # OK THEN c2
                 ELSE IF c2.ret
                 THEN make_dir_replace(c2, p, overwrite, check_only)
                 ELSE make_dir_create(c2, p, overwrite, fill, check_only)
                 : c2 \in {exists(c1, p)}})
       : c1 \in {is_dir(c, p)}})

make_dir_dry(c, p, overwrite, clear, fill, check_only) ==
  IF check_only = "None"
  THEN The({IF c1.exc # OK THEN Emit(c1, "check_raise")
            ELSE make_dir_body(Emit(c1, "check_ok"), p, overwrite, clear,
                               fill, TRUE)
            : c1 \in {make_dir(c, p, overwrite, clear, fill, "True")}})
  ELSE make_dir_body(c, p, overwrite, clear, fill, check_only = "True")

make_dir(c, p, overwrite, clear, fill, check_only) ==
  IF check_only = "None"
  THEN The({IF c1.exc # OK THEN Emit(c1, "check_raise")
            ELSE make_dir_body(Emit(c1, "check_ok"), p, overwrite, clear,
                               fill, FALSE)
            : c1 \in {make_dir(c, p, overwrite, clear, fill, "True")}})
  ELSE make_dir_body(c, p, overwrite, clear, fill, check_only = "True")

(***************************************************************************)
(* sftp_connection._download, _upload and open_file.  The local file is    *)
(* the temporary file of the proxy; open_file returns the proxy's mode and *)
(* whether a write-back is bound to it.                                    *)
(***************************************************************************)
Lower(mode) == IF mode = "W" THEN "w" ELSE mode

_download(c, p) ==
  The({IF ~c1.ret THEN Raise(c1, "AssertionError")
       ELSE The({IF c2.exc # OK THEN c2 ELSE Exit(S_get(c2, NameOf(p)))
                 : c2 \in {Enter(c1, DirOf(p))}})
       : c1 \in {is_open(c)}})

_upload(c, p) ==
  The({IF ~c1.ret THEN Raise(c1, "AssertionError")
       ELSE The({IF c2.exc # OK THEN c2 ELSE Exit(S_put(c2, NameOf(p)))
                 : c2 \in {Enter(c1, DirOf(p))}})
       : c1 \in {is_open(c)}})

(***************************************************************************)
(* The local file behind a proxy (the built-in open, write and read).      *)
(***************************************************************************)
Truncating == {"w", "wb", "w+"}
Readable == {"r", "rb", "r+", "w+"}
Writable == {"w", "wb", "a", "r+", "w+"}

LocalOpen(c, mode) ==
  IF mode \in Truncating THEN [c EXCEPT !.temp = File(<<>>)]
  ELSE IF mode = "a"
  THEN IF c.temp.ex THEN c ELSE [c EXCEPT !.temp = File(<<>>)]
  ELSE IF c.temp.ex THEN c ELSE Raise(c, "FileNotFoundError")

LocalWrite(f, mode, written, b) ==
  IF mode = "a" THEN File(f.d \o b)
  ELSE File(SubSeq(f.d, 1, Len(written)) \o b
            \o SubSeq(f.d, Len(written) + Len(b) + 1, Len(f.d)))

writeback_inverted(mode) == mode \in {"r", "rb"}

writeback_always(mode) == TRUE

writeback_of(mode) == mode \notin {"r", "rb"}

open_file(c, p, mode) ==
  The({IF ~c1.ret THEN Raise(c1, "AssertionError")
       ELSE The({IF c3.exc # OK THEN c3
                 ELSE Ret(LocalOpen(c3, Lower(mode)),
                          [mode |-> Lower(mode),
                           wb |-> writeback_of(Lower(mode))])
                 : c3 \in {IF Lower(mode) \notin {"w", "wb"}
                           THEN _download([c1 EXCEPT !.temp = NoFile], p)
                           ELSE [c1 EXCEPT !.temp = NoFile]}})
       : c1 \in {is_open(c)}})

(***************************************************************************)
(* attila.fs.proxies.ProxyFile.close: run the write-back if one is bound,  *)
(* and remove the temporary file whatever the write-back did.              *)
(***************************************************************************)
proxy_close_leaky(c, f) ==
  The({IF c1.exc # OK THEN c1 ELSE [c1 EXCEPT !.temp = NoFile]
       : c1 \in {IF f.wb THEN _upload(c, f.path) ELSE c}})

proxy_close(c, f) ==
  The({[c1 EXCEPT !.temp = NoFile]
       : c1 \in {IF f.wb THEN _upload(c, f.path) ELSE c}})

(***************************************************************************)
(* State after construction: a closed session in front of some remote      *)
(* store.                                                                  *)
(***************************************************************************)
NoArgs ==
  [path |-> Root, overwrite |-> FALSE, clear |-> FALSE, fill |-> FALSE,
   mode |-> "", name |-> "", stale |-> {}]

Shown(v) == IF v = TRUE THEN "True" ELSE "False"

Last(op, args, c, ret, data) ==
  [op |-> op, path |-> args.path, overwrite |-> args.overwrite,
   clear |-> args.clear, fill |-> args.fill, mode |-> args.mode,
   exc |-> c.exc, np |-> c.np, ret |-> IF c.exc = OK THEN ret ELSE None,
   data |-> data, name |-> args.name, stale |-> args.stale,
   names |-> IF op = "list" /\ c.exc = OK THEN c.ret ELSE <<>>]

Idle ==
  [op |-> "idle", path |-> Root, overwrite |-> FALSE, clear |-> FALSE,
   fill |-> FALSE, mode |-> "", exc |-> OK, np |-> 0, ret |-> None,
   data |-> <<>>, name |-> "", stale |-> {}, names |-> <<>>]

NoPF ==
  [state |-> "none", path |-> Root, mode |-> "", wb |-> FALSE,
   data |-> <<>>, calls |-> 0]

NoWrite == [valid |-> FALSE, path |-> Root, data |-> <<>>]

Callers == {"A", "B"}

NoCall ==
  [pc |-> "idle", op |-> "", path |-> Root, name |-> "", isdir |-> FALSE,
   saved |-> NoCwd, exc |-> OK, at |-> NoCwd]

Init ==
  /\ tree \in KindTrees
  /\ alive = FALSE
  /\ _is_open = FALSE
  /\ _session = None
  /\ _cwd = NoCwd
  /\ rcwd = NoCwd
  /\ pf = NoPF
  /\ temp = NoFile
  /\ lastw = NoWrite
  /\ last = Idle
  /\ log = <<>>
  /\ callers = [k \in Callers |-> NoCall]

(***************************************************************************)
(* The state a handler leaves behind.  A client that is no longer held     *)
(* takes its working directory and its transport with it.  last and log    *)
(* are history variables: they describe the call that has just ended, and  *)
(* the next call starts once the caller has taken its result (Return).     *)
(***************************************************************************)
Effect(op, args, c, ret, data) ==
  /\ last = Idle
  /\ tree' = c.tree
  /\ _is_open' = c.io
  /\ _session' = c.sess
  /\ _cwd' = c.cwd
  /\ rcwd' = IF c.sess = None THEN NoCwd ELSE c.rcwd
  /\ alive' = (c.sess # None /\ c.alive)
  /\ temp' = c.temp
  /\ log' = c.log
  /\ last' = Last(op, args, c, ret, data)
  /\ UNCHANGED callers

Commit(op, args, c, ret) ==
  /\ Effect(op, args, c, ret, <<>>)
  /\ UNCHANGED <<pf, lastw>>

Orders == {o \in [1..Cardinality(Names) -> Names] :
             \A i, j \in 1..Cardinality(Names) : i # j => o[i] # o[j]}

(***************************************************************************)
(* sftp_connection.open.  Establishing the transport is refused, or yields *)
(* a client, or yields no client (from_transport returns None when the     *)
(* channel cannot be opened).                                              *)
(***************************************************************************)
open_refresh_only(c, outcome) ==
  The({IF c1.ret THEN Raise(c1, "AssertionError")
       ELSE The({IF outcome = "refused" THEN Raise(c2, "ConnErr")
                 ELSE LET c3 == [c2 EXCEPT
                                   !.sess = IF outcome = "ok" THEN "client"
                                            ELSE None,
                                   !.alive = (outcome = "ok"),
                                   !.rcwd = NoCwd,
                                   !.io = TRUE] IN
                      getcwd(c3)
                 : c2 \in {getcwd(c1)}})
       : c1 \in {is_open(c)}})

open(c, outcome) ==
  The({IF c1.ret THEN Raise(c1, "AssertionError")
       ELSE The({IF outcome = "refused" THEN Raise(c2, "ConnErr")
                 ELSE LET c3 == [c2 EXCEPT
                                   !.sess = IF outcome = "ok" THEN "client"
                                            ELSE None,
                                   !.alive = (outcome = "ok"),
                                   !.rcwd = NoCwd,
                                   !.io = TRUE] IN
                      IF c2.ret = NoCwd THEN getcwd(c3)
                      ELSE chdir(c3, c2.ret)
                 : c2 \in {getcwd(c1)}})
       : c1 \in {is_open(c)}})

Open ==
  \E outcome \in {"ok", "refused", "nochan"} :
    Commit("open", NoArgs, open(Conn, outcome), None)

Close == Commit("close", NoArgs, close(Conn), None)

IsOpen ==
  LET c == is_open(Conn) IN Commit("is_open", NoArgs, c, Shown(c.ret))

Getcwd == Commit("getcwd", NoArgs, getcwd(Conn), None)

Chdir ==
  \E p \in Paths :
    Commit("chdir", [NoArgs EXCEPT !.path = p], chdir(Conn, p), None)

(***************************************************************************)
(* The transport dies without the session noticing.                        *)
(***************************************************************************)
Die ==
  /\ last = Idle
  /\ _session # None
  /\ alive
  /\ alive' = FALSE
  /\ UNCHANGED <<tree, _is_open, _session, _cwd, rcwd, pf, temp, lastw,
                 last, log, callers>>

MakeDir ==
  \E p \in Paths, overwrite, clear, fill \in BOOLEAN :
  \E o \in IF Cardinality(Children(tree, p)) < 2
            THEN {CHOOSE x \in Orders : TRUE}
            ELSE Orders :
    Commit("make_dir",
           [NoArgs EXCEPT !.path = p, !.overwrite = overwrite,
                          !.clear = clear, !.fill = fill],
           make_dir([Conn EXCEPT !.ord = o], p, overwrite, clear, fill,
                    "None"),
           None)

Remove ==
  \E p \in Paths \ {Root} :
    Commit("remove", [NoArgs EXCEPT !.path = p], remove(Conn, p), None)

IsDir ==
  \E p \in Paths :
    LET c == is_dir(Conn, p) IN
    Commit("is_dir", [NoArgs EXCEPT !.path = p], c, Shown(c.ret))

Size ==
  \E p \in Paths :
    Commit("size", [NoArgs EXCEPT !.path = p], size(Conn, p), None)

(***************************************************************************)
(* rename to a name the parent directory can hold in this store.           *)
(***************************************************************************)
Rename ==
  \E p \in Paths \ {Root}, new_name \in Names :
    /\ Append(DirOf(p), new_name) \in Paths
    /\ Commit("rename", [NoArgs EXCEPT !.path = p, !.name = new_name],
              rename(Conn, p, new_name), None)

(***************************************************************************)
(* list, against a server that lists the names in some order and may list  *)
(* names that nothing answers to.                                          *)
(***************************************************************************)
Patterns == {"*", "a"}

List ==
  \E p \in Paths, pattern \in Patterns, stale \in SUBSET Names :
  \E o \in IF Cardinality({NameOf(q) : q \in Children(tree, p)} \cup stale)
               < 2
            THEN {CHOOSE x \in Orders : TRUE}
            ELSE Orders :
    Commit("list",
           [NoArgs EXCEPT !.path = p, !.name = pattern, !.stale = stale],
           list([Conn EXCEPT !.ord = o, !.stale = stale], p, pattern),
           None)

(***************************************************************************)
(* The proxy-file cycle of one caller: open_file, writes and a read on the *)
(* handle, close.  lastw remembers the bytes of the last handle that was   *)
(* opened truncating and closed without an error.                          *)
(***************************************************************************)
OpenFile ==
  \E p \in FilePaths, mode \in Modes :
    LET c == open_file(Conn, p, mode) IN
    /\ pf.state = "none"
    /\ Effect("open_file", [NoArgs EXCEPT !.path = p, !.mode = mode], c,
              None, <<>>)
    /\ pf' = IF c.exc # OK THEN NoPF
             ELSE [state |-> "open", path |-> p, mode |-> c.ret.mode,
                   wb |-> c.ret.wb, data |-> <<>>, calls |-> 0]
    /\ UNCHANGED lastw

Write ==
  \E b \in Bytes \ {<<>>} :
    /\ pf.state = "open"
    /\ pf.mode \in Writable
    /\ Len(pf.data \o b) <= MaxLen
    /\ Len(LocalWrite(temp, pf.mode, pf.data, b).d) <= MaxLen
    /\ Effect("write", [NoArgs EXCEPT !.path = pf.path, !.mode = pf.mode],
              [Conn EXCEPT !.temp = LocalWrite(temp, pf.mode, pf.data, b)],
              None, b)
    /\ pf' = [pf EXCEPT !.data = @ \o b]
    /\ UNCHANGED lastw

Read ==
  /\ pf.state = "open"
  /\ pf.mode \in Readable
  /\ Effect("read", [NoArgs EXCEPT !.path = pf.path, !.mode = pf.mode],
            Conn, None, SubSeq(temp.d, Len(pf.data) + 1, Len(temp.d)))
  /\ UNCHANGED <<pf, lastw>>

CloseFile ==
  LET c == proxy_close(Conn, pf) IN
  /\ pf.state = "open"
  /\ Effect("close_file", [NoArgs EXCEPT !.path = pf.path, !.mode = pf.mode],
            c, None, <<>>)
  /\ pf' = [pf EXCEPT !.state = "closed", !.calls = IF pf.wb THEN 1 ELSE 0]
  /\ lastw' = IF c.exc = OK /\ pf.mode \in Truncating
              THEN [valid |-> TRUE, path |-> pf.path, data |-> pf.data]
              ELSE IF pf.path = lastw.path /\ pf.mode \in Writable
              THEN NoWrite
              ELSE lastw

Return ==
  /\ last # Idle
  /\ last' = Idle
  /\ log' = <<>>
  /\ pf' = IF pf.state = "closed" THEN NoPF ELSE pf
  /\ UNCHANGED <<tree, alive, _is_open, _session, _cwd, rcwd, temp, lastw,
                 callers>>

(***************************************************************************)
(* The session and its callers: open, close, the liveness query, the       *)
(* working directory, and adapter operations on an open, a closed or a     *)
(* dead session.                                                           *)
(***************************************************************************)
Next ==
  \/ Open \/ Close \/ IsOpen \/ Getcwd \/ Chdir \/ Die
  \/ Remove \/ IsDir
  \/ Return

Spec == Init /\ [][Next]_vars

(***************************************************************************)
(* The directory-tree operations of one caller on every remote tree.       *)
(***************************************************************************)
NextDir ==
  \/ Open \/ Die
  \/ MakeDir \/ Remove \/ IsDir
  \/ Return

SpecDir == Init /\ [][NextDir]_vars

InitFile ==
  /\ Init
  /\ \A p \in Paths \ (FilePaths \cup {Root}) : tree[p] = NoNode

NextFile ==
  \/ Open \/ Die \/ IsOpen
  \/ OpenFile \/ Write \/ Read \/ CloseFile
  \/ Return

SpecFile == InitFile /\ [][NextFile]_vars

(***************************************************************************)
(* Listing, renaming and sizing on an open, a closed or a dead session.    *)
(***************************************************************************)
NextList ==
  \/ Open \/ Die \/ IsOpen
  \/ List \/ Size \/ Rename
  \/ Return

SpecList == Init /\ [][NextList]_vars

(***************************************************************************)
(* Two callers of one session with nothing serialising them.  Each makes   *)
(* one call of remove or rename, one step at a time; a step of the other   *)
(* caller can come between any two.  A caller's record holds its position (pc), its   *)
(* arguments, the working directory its block returns to (saved), the      *)
(* pending exception and the directory the server resolved its bare name   *)
(* against (at).                                                           *)
(***************************************************************************)
ServerDir == IF rcwd = NoCwd THEN Home ELSE rcwd

Shared(c) ==
  /\ last = Idle
  /\ tree' = c.tree
  /\ _is_open' = c.io
  /\ _session' = c.sess
  /\ _cwd' = c.cwd
  /\ rcwd' = IF c.sess = None THEN NoCwd ELSE c.rcwd
  /\ alive' = (c.sess # None /\ c.alive)
  /\ temp' = c.temp
  /\ UNCHANGED <<pf, lastw, last, log>>

Begin(k) ==
  \E op \in {"remove", "rename"}, p \in Paths \ {Root} :
  \E new_name \in IF op = "rename"
                  THEN {n \in Names : Append(DirOf(p), n) \in Paths}
                  ELSE {""} :
    LET c == IF op = "remove" THEN remove_guard(Conn, p)
             ELSE rename_guard(Conn, p, new_name) IN
    /\ callers[k].pc = "idle"
    /\ Shared(c)
    /\ callers' = [callers EXCEPT ![k] =
                     IF c.exc # OK \/ (op = "rename" /\ ~c.ret)
                     THEN [NoCall EXCEPT !.pc = "done"]
                     ELSE [NoCall EXCEPT !.pc = "enter", !.op = op,
                                         !.path = p, !.name = new_name,
                                         !.isdir = (op = "remove" /\ c.ret)]]

EnterStep(k) ==
  LET c == Enter(Conn, DirOf(callers[k].path)) IN
  /\ callers[k].pc = "enter"
  /\ Shared(c)
  /\ callers' = [callers EXCEPT ![k] =
                   IF c.exc # OK THEN [NoCall EXCEPT !.pc = "done"]
                   ELSE [@ EXCEPT !.pc = "prim", !.saved = Head(c.stack)]]

PrimStep(k) ==
  LET me == callers[k]
      c == bare_name_primitive(Conn, me.op, me.path, me.isdir, me.name) IN
  /\ me.pc = "prim"
  /\ Shared(c)
  /\ callers' = [callers EXCEPT ![k] =
                   [@ EXCEPT !.pc = "exit", !.exc = c.exc, !.at = ServerDir]]

ExitStep(k) ==
  LET me == callers[k]
      c == Exit([Conn EXCEPT !.stack = <<me.saved>>, !.exc = me.exc]) IN
  /\ me.pc = "exit"
  /\ Shared(c)
  /\ callers' = [callers EXCEPT ![k] = [NoCall EXCEPT !.pc = "done"]]

NextRace ==
  \/ Open \/ Return
  \/ \E k \in Callers : Begin(k)
  \/ \E k \in Callers : EnterStep(k)
  \/ \E k \in Callers : PrimStep(k)
  \/ \E k \in Callers : ExitStep(k)

SpecRace == Init /\ [][NextRace]_vars

(***************************************************************************)
(* Properties of make_dir.                                                 *)
(***************************************************************************)
Mutating == {"mkdir", "rmdir", "remove"}

Has(l, ev) == \E i \in 1..Len(l) : l[i] = ev

SessionLive == _is_open /\ _session # None /\ alive

IsDirIn(c, p) == \E c1 \in {is_dir(c, p)} : c1.exc = OK /\ c1.ret = TRUE

IsDirNow(p) == IsDirIn(Conn, p)

ConnAfter ==
  [tree |-> tree', rcwd |-> rcwd', cwd |-> _cwd', io |-> _is_open',
   sess |-> _session', alive |-> alive', temp |-> temp', log |-> <<>>,
   np |-> 0, ord |-> <<>>, stale |-> {}, stack |-> <<>>, exc |-> OK,
   ret |-> None]

\* C1: in a make_dir call with check_only unset, a mkdir, rmdir or remove
\* is issued only after the check-only pass has returned without raising;
\* when the check-only pass raises, none is issued and the remote tree is
\* left as it was.
C1_CheckBeforeMutation ==
  [][last'.op = "make_dir" =>
       /\ \A i \in 1..Len(log') :
            log'[i] \in Mutating =>
              \E j \in 1..(i - 1) : log'[j] = "check_ok"
       /\ Has(log', "check_raise") =>
            /\ \A i \in 1..Len(log') : log'[i] \notin Mutating
            /\ tree' = tree]_vars

C1_Witness ==
  /\ last.op = "make_dir"
  /\ last.overwrite
  /\ last.exc = OK
  /\ log[1] = "check_ok"
  /\ Has(log, "remove")
  /\ Has(log, "mkdir")

C3_ClearWithoutOverwrite ==
  [][(/\ last'.op = "make_dir"
      /\ last'.clear
      /\ ~last'.overwrite
      /\ SessionLive
      /\ Kind(tree, last'.path) = "dir"
      /\ Children(tree, last'.path) # {})
       => (/\ last'.exc = "DirectoryNotEmptyError"
           /\ tree' = tree)]_vars

C3_Witness ==
  /\ last.op = "make_dir"
  /\ last.clear
  /\ ~last.overwrite
  /\ last.exc = "DirectoryNotEmptyError"
  /\ Cardinality(Children(tree, last.path)) = 2
  /\ log = <<"check_raise">>

\* C4: make_dir(D, clear=True, overwrite=True) on an existing non-empty
\* directory D, whatever its children are, succeeds and leaves D an empty
\* directory.
C4_ClearWithOverwrite ==
  [][(/\ last'.op = "make_dir"
      /\ last'.clear
      /\ last'.overwrite
      /\ SessionLive
      /\ Kind(tree, last'.path) = "dir"
      /\ Children(tree, last'.path) # {})
       => (/\ last'.exc = OK
           /\ Kind(tree', last'.path) = "dir"
           /\ Children(tree', last'.path) = {})]_vars

(***************************************************************************)
(* Properties of the session.                                              *)
(***************************************************************************)
\* C9: between calls, whatever calls came before and however they ended,
\* the client handle is held exactly when the liveness flag is true.
C9_HandleIffOpen == (_session # None) <=> _is_open

C9_Witness ==
  /\ last.op = "open"
  /\ last.exc = OK
  /\ ~_is_open
  /\ _session = None

\* C10: the is_open query never raises; it probes the server only when the
\* flag is set, and when the flag is set but the probe fails or the handle
\* is missing it returns False and leaves the flag false and the handle
\* unset, although the teardown inside it fails too.
C10_IsOpenSafe ==
  [][last'.op = "is_open" =>
       /\ last'.exc = OK
       /\ last'.np > 0 => _is_open
       /\ (_is_open /\ (~alive \/ _session = None)) =>
            /\ last'.ret = "False"
            /\ ~_is_open'
            /\ _session' = None
       /\ ~_is_open' => last'.ret = "False"]_vars

C10_Witness ==
  /\ last.op = "is_open"
  /\ last.np = 1
  /\ last.ret = "False"
  /\ ~_is_open
  /\ _session = None

\* C11: when close has ended, also when the teardown call of the client
\* raised, the liveness flag is false and the handle is unset, and an open
\* whose transport is established leaves the session open again.
C11_CloseCloses ==
  last.op = "close" =>
    /\ ~_is_open
    /\ _session = None
    /\ \E c \in {open(Conn, "ok")} :
         c.exc # "AssertionError" /\ c.io /\ c.sess # None

C11_Witness ==
  /\ last.op = "close"
  /\ last.exc = "ConnErr"
  /\ ~_is_open
  /\ _session = None

\* C13: when open returns with the session open, a working directory that
\* was recorded on the session (by chdir or getcwd, before or after a
\* close) is the working directory of the client and stays the recorded
\* one; when none was recorded, the recorded directory becomes the one the
\* server reports, the root when it reports none.
C13_OpenReappliesCwd ==
  [][(last'.op = "open" /\ last'.exc = OK /\ _is_open') =>
       IF _cwd = NoCwd
       THEN _cwd' = Home /\ rcwd' = NoCwd
       ELSE _cwd' = _cwd /\ rcwd' = _cwd]_vars

C13_Witness ==
  /\ last.op = "open"
  /\ last.exc = OK
  /\ _is_open
  /\ _cwd = <<"a", "a">>
  /\ rcwd = <<"a", "a">>

\* C14: is_dir on an open session whose transport answers never raises;
\* it returns True when the path is a directory, empty or not, and False
\* when the path is missing or a plain file, and it changes nothing on the
\* server.
C14_IsDirNeverRaises ==
  [][(last'.op = "is_dir" /\ SessionLive) =>
       /\ last'.exc = OK
       /\ last'.ret = Shown(Kind(tree, last'.path) = "dir")
       /\ tree' = tree]_vars

C14_Witness ==
  /\ last.op = "is_dir"
  /\ SessionLive
  /\ last.exc = OK
  /\ last.ret = "False"
  /\ Kind(tree, last.path) = "file"
  /\ rcwd = <<"a">>

RawListing(t, p, stale) == {NameOf(q) : q \in Children(t, p)} \cup stale

Passes(c, q) ==
  \/ \E c1 \in {is_file(c, q)} : c1.exc = OK /\ c1.ret = TRUE
  \/ \E c1 \in {is_dir(c, q)} : c1.exc = OK /\ c1.ret = TRUE

Range(s) == {s[i] : i \in 1..Len(s)}

\* C15: whatever the server lists for a directory D, stale names included,
\* every name that list(D, pattern) returns passes is_file or is_dir
\* against D; with the pattern * the names returned are exactly the listed
\* names that pass, each once, and with another pattern those of them that
\* match it.
C15_ListOnlyExisting ==
  [][(last'.op = "list" /\ last'.exc = OK) =>
       /\ \A n \in Range(last'.names) :
            /\ n \in RawListing(tree, last'.path, last'.stale)
            /\ Passes(Conn, Append(last'.path, n))
       /\ Range(last'.names) =
            {n \in RawListing(tree, last'.path, last'.stale) :
               /\ Passes(Conn, Append(last'.path, n))
               /\ GlobMatch(last'.name, n)}
       /\ Len(last'.names) = Cardinality(Range(last'.names))]_vars

C15_Witness ==
  /\ last.op = "list"
  /\ last.exc = OK
  /\ last.name = "*"
  /\ last.stale = {"b"}
  /\ Kind(tree, Append(last.path, "b")) = "none"
  /\ last.path = <<"a">>
  /\ last.names = <<"a">>

\* C16: rename of a path to the name it already has, on an open session
\* whose transport answers, raises nothing, issues no rename (nor any other
\* changing call) and leaves the remote tree as it was.
C16_RenameSameName ==
  [][(/\ last'.op = "rename"
      /\ last'.name = NameOf(last'.path)
      /\ SessionLive)
       => (/\ last'.exc = OK
           /\ log' = <<>>
           /\ tree' = tree)]_vars

C16_Witness ==
  /\ last.op = "rename"
  /\ last.name = NameOf(last.path)
  /\ Kind(tree, last.path) = "dir"
  /\ Children(tree, last.path) # {}
  /\ _is_open
  /\ last.exc = OK
  /\ log = <<>>

IsFileIn(c, p) == \E c1 \in {is_file(c, p)} : c1.exc = OK /\ c1.ret = TRUE

Unlisted(c, p, n) ==
  \E c1 \in {list([c EXCEPT !.ord = CHOOSE o \in Orders : TRUE], p, "*")} :
    c1.exc = OK /\ n \notin Range(c1.ret)

\* C17: when remove(P) returns, P was a file or an empty directory and
\* is gone: is_file(P) and is_dir(P) are false and the listing of its
\* parent does not hold its name; every other entry of the remote tree is
\* as it was.
C17_RemoveRemovesOnlyP ==
  [][(last'.op = "remove" /\ last'.exc = OK) =>
       /\ \/ Kind(tree, last'.path) = "file"
          \/ Kind(tree, last'.path) = "dir" /\ Children(tree, last'.path) = {}
       /\ ~IsFileIn(ConnAfter, last'.path)
       /\ ~IsDirIn(ConnAfter, last'.path)
       /\ Unlisted(ConnAfter, DirOf(last'.path), NameOf(last'.path))
       /\ \A q \in Paths \ {last'.path} : tree'[q] = tree[q]]_vars

C17_Witness ==
  /\ last.op = "remove"
  /\ last.exc = OK
  /\ log = <<"rmdir">>
  /\ last.path = <<"a", "a">>
  /\ rcwd = <<"b">>
  /\ Kind(tree, <<"a">>) = "dir"
  /\ Kind(tree, <<"b", "a">>) = "file"
  /\ Kind(tree, last.path) = "none"

\* C18: remove(P) of a directory P that is not empty, on an open session
\* whose transport answers, issues one rmdir and nothing else, raises the
\* error of that call, and leaves the remote tree as it was.
C18_RemoveNonEmptyDir ==
  [][(/\ last'.op = "remove"
      /\ SessionLive
      /\ Kind(tree, last'.path) = "dir"
      /\ Children(tree, last'.path) # {})
       => (/\ last'.exc = "IOError"
           /\ log' = <<"rmdir">>
           /\ tree' = tree)]_vars

C18_Witness ==
  /\ last.op = "remove"
  /\ last.exc = "IOError"
  /\ log = <<"rmdir">>
  /\ last.path = <<"a">>
  /\ Kind(tree, <<"a", "a">>) = "file"

\* C19: make_dir(P) where P is a plain file, on an open session whose
\* transport answers: without overwrite it raises FileExistsError and the
\* remote tree is as it was; with overwrite it removes the file and makes
\* a directory in its place, so that is_dir(P) is true afterwards and no
\* other entry has changed.
C19_FileInTheWay ==
  [][(/\ last'.op = "make_dir"
      /\ SessionLive
      /\ Kind(tree, last'.path) = "file")
       => IF ~last'.overwrite
          THEN /\ last'.exc = "FileExistsError"
               /\ tree' = tree
          ELSE /\ last'.exc = OK
               /\ log' = <<"check_ok", "remove", "mkdir">>
               /\ IsDirIn(ConnAfter, last'.path)
               /\ \A q \in Paths \ {last'.path} : tree'[q] = tree[q]]_vars

C19_Witness ==
  /\ last.op = "make_dir"
  /\ last.overwrite
  /\ ~last.clear
  /\ last.exc = OK
  /\ log = <<"check_ok", "remove", "mkdir">>
  /\ last.path = <<"a", "a">>
  /\ IsDirNow(last.path)

\* C20: a make_dir call without overwrite issues no remove and no rmdir,
\* whatever clear and fill are and whatever the remote tree is, in the
\* check-only pass, in the real pass and in the creation of parents.
C20_NoDeleteWithoutOverwrite ==
  [][(last'.op = "make_dir" /\ ~last'.overwrite) =>
       /\ ~Has(log', "remove")
       /\ ~Has(log', "rmdir")
       /\ \A q \in Paths : Kind(tree, q) # "none" => tree'[q] = tree[q]]_vars

C20_Witness ==
  /\ last.op = "make_dir"
  /\ ~last.overwrite
  /\ last.clear
  /\ last.fill
  /\ last.exc = OK
  /\ log = <<"check_ok", "mkdir", "mkdir">>
  /\ Kind(tree, <<"b">>) = "file"

(***************************************************************************)
(* Properties of the cached working directory and of a failed open.        *)
(***************************************************************************)
\* C22: whenever the session is open (the flag is set and a client is held),
\* the cached working directory is the directory the server resolves
\* relative names against, after any sequence of open, chdir, getcwd and
\* close.
C22_CwdInSync == (_is_open /\ _session # None) => _cwd = ServerDir

\* C23: when open raises anything but the assertion that the session is
\* already open, the session is left closed and holds no client.
C23_OpenAllOrNothing ==
  (last.op = "open" /\ last.exc \notin {OK, "AssertionError"})
    => (~_is_open /\ _session = None)

(***************************************************************************)
(* Properties of two callers sharing one session.                          *)
(***************************************************************************)
\* C21: a caller's bare-name primitive acts in the directory the server
\* is in at that moment.  When another caller has changed the working
\* directory since this caller entered the parent of its path, a primitive
\* that succeeds removes or renames the entry of that name in the other
\* caller's directory, and a remove leaves the caller's own path as it was.
C21_PrimitiveInOthersDirectory ==
  [][\A k \in Callers :
       (/\ callers[k].pc = "prim"
        /\ callers'[k].pc = "exit"
        /\ callers'[k].exc = OK
        /\ ServerDir # DirOf(callers[k].path))
         => /\ tree' = IF callers[k].op = "rename"
                       THEN Moved(tree,
                                  Append(ServerDir, NameOf(callers[k].path)),
                                  Append(ServerDir, callers[k].name))
                       ELSE [tree EXCEPT
                               ![Append(ServerDir, NameOf(callers[k].path))]
                                 = NoNode]
            /\ callers[k].op = "remove"
                 => tree'[callers[k].path] = tree[callers[k].path]]_vars

C21_Witness ==
  /\ callers["A"].pc = "exit"
  /\ callers["A"].op = "remove"
  /\ callers["A"].exc = OK
  /\ callers["B"].pc = "prim"
  /\ callers["A"].at = DirOf(callers["B"].path)
  /\ callers["A"].at # DirOf(callers["A"].path)
  /\ Kind(tree, callers["A"].path) = "file"
  /\ Kind(tree, Append(callers["A"].at, NameOf(callers["A"].path))) = "none"

SessionDead == _is_open /\ _session # None /\ ~alive

\* C12: on a session that has died silently, the liveness query returns
\* False without raising and leaves the session closed, and an adapter
\* operation called on the dead session raises the connectivity error of
\* the protocol call it makes.
C12_DeadSessionError ==
  [][/\ (last'.op = "is_open" /\ SessionDead) =>
          /\ last'.exc = OK
          /\ last'.ret = "False"
          /\ ~_is_open'
          /\ _session' = None
     /\ (last'.op \in {"size", "rename", "list"} /\ SessionDead) =>
          last'.exc = "ConnErr"]_vars

(***************************************************************************)
(* Properties of the proxy-file cycle.                                     *)
(***************************************************************************)
Count(l, ev) == Cardinality({i \in 1..Len(l) : l[i] = ev})

ReadOnly == {"r", "rb"}

\* C5: bytes written through a handle opened truncating and closed without
\* an error are exactly the bytes read through a handle opened afterwards
\* on the same path in a read mode.
C5_RoundTrip ==
  (/\ last.op = "read"
   /\ pf.mode \in Readable \ Truncating
   /\ pf.data = <<>>
   /\ lastw.valid
   /\ lastw.path = pf.path)
    => last.data = lastw.data

C5_Witness ==
  /\ last.op = "read"
  /\ pf.mode = "rb"
  /\ lastw.valid
  /\ lastw.path = pf.path
  /\ Len(lastw.data) = MaxLen
  /\ last.data = lastw.data

\* C6: when the close of a proxy file ends, with or without a write-back
\* and whether or not the write-back raised, the temporary file is gone.
C6_TempRemoved == last.op = "close_file" => ~temp.ex

C6_Witness ==
  /\ last.op = "close_file"
  /\ pf.wb
  /\ last.exc # OK
  /\ ~temp.ex

\* C7: open_file issues no download when the mode truncates the file, and
\* when it returns a handle in any other mode the temporary file holds the
\* downloaded remote content.
C7_DownloadByMode ==
  last.op = "open_file" =>
    /\ Lower(last.mode) \in Truncating => ~Has(log, "get")
    /\ (Lower(last.mode) \notin Truncating /\ last.exc = OK) =>
         /\ Has(log, "get")
         /\ temp = File(tree[last.path].d)

\* C8: the write-back of a handle runs once, when the handle is closed, if
\* the mode is not read-only; with mode r or rb it never runs and the
\* close leaves the remote tree as it was; nothing is uploaded by
\* open_file or while the handle is open.
C8_WritebackOnce ==
  [][/\ pf'.state = "open" => pf'.calls = 0
     /\ last'.op \in {"open_file", "write", "read"} =>
          ~Has(log', "put") /\ tree' = tree
     /\ last'.op = "close_file" =>
          /\ pf'.calls = IF pf.mode \in ReadOnly THEN 0 ELSE 1
          /\ Count(log', "put") <= pf'.calls
          /\ (last'.exc = OK /\ pf.mode \notin ReadOnly) =>
               Count(log', "put") = 1
          /\ pf.mode \in ReadOnly => tree' = tree]_vars

C8_Witness ==
  /\ last.op = "close_file"
  /\ pf.mode = "a"
  /\ pf.calls = 1
  /\ last.exc = OK
  /\ log = <<"put">>

====
